---- MODULE Spec2Model ----
(***************************************************************************)
(* A model of ChainCrawler (src/chainCrawler.py): the traversal engine     *)
(* crawl_node, its callers crawl / find / crawl_thread / crawl_zmq, the    *)
(* link extractor and query matcher, and the three helper structures the   *)
(* engine imports (CrawlerCacheWithCollisionHistory, LeakyLIFO,            *)
(* TimeDecaySet).  The remote graph is the environment: every fetch draws  *)
(* its response (a transport failure or a decoded body) from a bounded     *)
(* set.  Python strings are sequences of one-character strings, so that    *)
(* lower(), the substring test "a in b" and string concatenation are       *)
(* computed as Python computes them.                                       *)
(***************************************************************************)
EXTENDS Integers, Sequences, FiniteSets, TLC

\* ------------------------------------------------------------------ bounds
MaxURI == 2            \* URIs are 0..MaxURI; 0 is the entry point
MaskBits == 1          \* cache_table_mask_length: the cache has 2^MaskBits slots
Depth == 2             \* track_search_depth: capacity of the crawl history
Persistence == 1       \* found_set_persistence, in clock ticks
MaxItems == 1          \* longest 'items' collection of a fetched body
MaxRuns == 2           \* calls of crawl / find / crawl_thread / crawl_zmq on the instance
MaxSteps == 3          \* calls of crawl_node that one call of crawl makes
MaxLoops == 2          \* threads of crawl_thread alive at the same time
MaxDeepSteps == 6      \* calls of crawl_node in the run that empties a full history

\* ----------------------------------------------------------------- strings
\* Python's None where a string is expected, and the mark of a key that a
\* dict does not hold: no Python string equals either (a Python string is a
\* sequence of one-character strings)
None == <<"None">>
Absent == <<"Absent">>

s_entry_point == <<"e","n","t","r","y","_","p","o","i","n","t">>
s_items == <<"i","t","e","m","s">>
s_foo == <<"f","o","o">>
s_Foo == <<"F","o","o">>
s_self == <<"s","e","l","f">>
s_a == <<"a">>
s_A == <<"A">>
s_s == <<"s">>
s_es == <<"e","s">>
s_empty == << >>

LowerChar(c) == CASE c = "F" -> "f" [] c = "A" -> "a" [] OTHER -> c

\* str.lower()
Lower(s) == [i \in DOMAIN s |-> LowerChar(s[i])]

\* Python's "a in b" on two strings: a is a substring of b
StrIn(a, b) ==
    \E i \in 0..(Len(b) - Len(a)) : SubSeq(b, i + 1, i + Len(a)) = a

\* ------------------------------------------------------------ environment
EntryPoint == 0
URIs == 0..MaxURI

\* a link object of a body: {'href': ..., 'title': ...}; title may be missing
Titles == {s_a}
LinkObjs == [href : URIs, title : Titles \cup {Absent}]

\* the value of a relation of the link section: a link object, JSON null, or
\* the relation is not in the body
RelVals == [kind : {"obj"}, href : URIs, title : Titles \cup {Absent}]
             \cup {[kind |-> k, href |-> EntryPoint, title |-> Absent] : k \in {"null", "absent"}}

\* the relation names a body may use besides 'items', in iteration order
RelKeys == <<s_foo, s_self>>

\* a query's resource_extra is None or {'sensor_type': v}: qry_extra is
\* NoExtra or v.  A body gives the attribute a value or lacks it (NoAttr).
NoExtra == 0
NoAttr == 0
AttrVals == {NoAttr, 1, 2}

\* ------------------------------------------------- CrawlerCache (imported)
Empty == 0 - 1

\* the 64 bit fingerprint of a URI (cityhash in the source): distinct URIs
\* have distinct fingerprints, none equal to the empty-slot sentinel
Fingerprint(u) == u + 1

Pow2(n) == IF n = 0 THEN 1 ELSE IF n = 1 THEN 2 ELSE IF n = 2 THEN 4 ELSE 8

SlotOf(u) == Fingerprint(u) % Pow2(MaskBits)

Slots == 0..(Pow2(MaskBits) - 1)

CacheEmpty == [s \in Slots |-> Empty]

CacheCheck(c, u) == c[SlotOf(u)] = Fingerprint(u)

CachePut(c, u) == [c EXCEPT ![SlotOf(u)] = Fingerprint(u)]

CacheCollision(c, u) == c[SlotOf(u)] # Empty /\ c[SlotOf(u)] # Fingerprint(u)

\* ---------------------------------------------------- LeakyLIFO (imported)
\* the history is a sequence, oldest entry first, newest (top) last
LifoPush(h, x) == IF Len(h) >= Depth THEN Append(Tail(h), x) ELSE Append(h, x)

LifoTop(h) == h[Len(h)]

LifoPop(h) == SubSeq(h, 1, Len(h) - 1)

LifoAsList(h) == h

\* ------------------------------------------------- TimeDecaySet (imported)
\* The set maps a URI to the time since it was last added (its age), or to
\* Never.  An entry whose age reaches Persistence is expired; add, size and
\* asList treat an expired entry as absent, so it is kept as Never.
Never == 0 - 1

TdsEmpty == [u \in URIs |-> Never]

TdsLive(s, u) == s[u] # Never

\* add returns TRUE when the URI was absent or expired; it (re)stamps the URI
TdsAddResult(s, u) == ~TdsLive(s, u)

TdsAdd(s, u) == [s EXCEPT ![u] = 0]

TdsAsSet(s) == {u \in URIs : TdsLive(s, u)}

TdsSize(s) == Cardinality(TdsAsSet(s))

\* one clock tick passes
TdsTick(s) ==
    [u \in URIs |-> IF s[u] = Never \/ s[u] + 1 >= Persistence THEN Never ELSE s[u] + 1]

\* ---------------------------------------------------------- link extractor
\* self.filter_keywords after __init__ with the default filter_keywords
FilterKeywords ==
    { <<"e","d","i","t">>, <<"c","r","e","a","t","e">>, s_self,
      <<"c","u","r","i","e","s">>, <<"w","e","b","s","o","c","k","e","t">>,
      <<"p","r","e","v","i","o","u","s">>, <<"n","e","x","t">> }

\* any(substring in key.lower() for substring in self.filter_keywords)
IsFiltered(key) == \E kw \in FilterKeywords : StrIn(kw, Lower(key))

\* apply_hal_curies: with no '_links' or no 'curies' section the lookup
\* raises inside the try block, the bare except swallows it and the json is
\* returned as it came; otherwise the curies section is consumed
ApplyHalCuries(json) ==
    IF json.links /\ json.curies THEN [json EXCEPT !.curies = FALSE] ELSE json

\* the records the loop body makes of the 'items' collection
ItemLinks(items, cur_type) ==
    [i \in DOMAIN items |->
        [href |-> items[i].href, title |-> items[i].title,
         type |-> cur_type, from_item_list |-> TRUE]]

\* the records the loop body makes of the relations RelKeys[i..]
RECURSIVE RelLinks(_, _)
RelLinks(rels, i) ==
    IF i > Len(RelKeys) THEN << >>
    ELSE (IF ~IsFiltered(RelKeys[i]) /\ rels[i].kind = "obj"
            THEN << [href |-> rels[i].href, title |-> rels[i].title,
                     type |-> RelKeys[i], from_item_list |-> FALSE] >>
            ELSE << >>)
         \o RelLinks(rels, i + 1)

\* flatten_filter_link_array(req_links), with self.current_uri_type
FlattenFilterLinkArray(json, cur_type) ==
    ItemLinks(json.items, cur_type) \o RelLinks(json.rels, 1)

\* Python's x == y for a dict x and a string y
DictEqStr(x, y) == FALSE

\* "x not in (y['href'] for y in self.crawl_history.asList())": x is the link
\* record (a dict), compared with each href (a string)
NotInHistory(x, hist) ==
    ~ \E k \in DOMAIN LifoAsList(hist) : DictEqStr(x, LifoAsList(hist)[k].href)

\* GetExternalLinks with every link reported as not in the cache
GetExternalLinks_NoCheck(json, cur_type, hist, c) ==
    LET flat == FlattenFilterLinkArray(json, cur_type)
        kept == SelectSeq(flat, LAMBDA x : NotInHistory(x, hist))
    IN  [i \in DOMAIN kept |->
            [href |-> kept[i].href, title |-> kept[i].title,
             type |-> kept[i].type, from_item_list |-> kept[i].from_item_list,
             in_cache |-> FALSE]]

\* get_external_links(req_links)
GetExternalLinks(json, cur_type, hist, c) ==
    LET flat == FlattenFilterLinkArray(json, cur_type)
        kept == SelectSeq(flat, LAMBDA x : NotInHistory(x, hist))
    IN  [i \in DOMAIN kept |->
            [href |-> kept[i].href, title |-> kept[i].title,
             type |-> kept[i].type, from_item_list |-> kept[i].from_item_list,
             in_cache |-> CacheCheck(c, kept[i].href)]]

\* ----------------------------------------------------------- query matcher
\* pluralize_resource_name(resource_name)
PluralizeResourceName(name) == << name \o s_s, name \o s_es >>

\* the type test of query_link_array for one link record
LinkTypeMatches(link, qtype, qplural) ==
    \/ (\E k \in DOMAIN qplural : StrIn(Lower(link.type), qplural[k]))
          /\ link.from_item_list
    \/ Lower(link.type) = qtype

\* this_link_item_matches of query_link_array for a link record with a title
LinkMatches(link, qtype, qplural, qtitle) ==
    /\ qtype # None => LinkTypeMatches(link, qtype, qplural)
    /\ qtitle # None => Lower(link.title) = qtitle

\* query_link_array(crawl_links): link_item['title'] raises KeyError for a
\* link without title when a title is queried
QueryLinkArray(crawl_links, qtype, qplural, qtitle) ==
    IF qtitle # None /\ \E k \in DOMAIN crawl_links : crawl_links[k].title = Absent
    THEN [exc |-> TRUE, uris |-> << >>]
    ELSE LET m == SelectSeq(crawl_links, LAMBDA x : LinkMatches(x, qtype, qplural, qtitle))
         IN  [exc |-> FALSE, uris |-> [i \in DOMAIN m |-> m[i].href]]

\* query_current_node(json): the current position against type, title, extra
QueryCurrentNode(json, pos, qtype, qplural, qtitle, qextra) ==
    LET typeOk == qtype # None =>
                    \/ \E k \in DOMAIN qplural : StrIn(Lower(pos.type), qplural[k])
                    \/ Lower(pos.type) = qtype
        titleOk == qtitle # None => Lower(pos.title) = qtitle
        \* json[key] raises KeyError for a missing key: caught, no match
        extraOk == qextra # NoExtra => (json.attr # NoAttr /\ json.attr = qextra)
    IN  [exc |-> FALSE,
         uris |-> IF typeOk /\ titleOk /\ extraOk THEN << pos.href >> ELSE << >>]

\* ------------------------------------------------------- traversal engine
VARIABLES
    current_uri, current_uri_type, current_uri_title,  \* the crawl position
    crawl_history,      \* LeakyLIFO of positions
    cache,              \* CrawlerCacheWithCollisionHistory
    found_resources,    \* TimeDecaySet
    q, zmq,             \* TRUE when self.q is a Queue / self.zmq is a socket
    find_called,
    qry_resource_type, qry_resource_plural, qry_resource_title, qry_extra,
    loop_count,         \* of crawl
    sink,               \* per URI: the time since it was last put on the queue or
                        \* sent on the socket, the shortest time between two such
                        \* deliveries (both capped at Persistence), and whether
                        \* it was delivered more than once
    pc,                 \* "idle", or "running" while the loop of crawl runs
    mode,               \* the method the caller invoked
    runs,               \* calls made so far
    transition,         \* the exit crawl_node took in the last step
    chosen,             \* the link record random.randrange picked in the last step
    added,              \* the URIs for which add returned True in the last step
    sent,               \* the URIs handed to the queue or the socket in the last step
    result, resultLog,  \* what the last call gave its caller; all results so far
    loops,              \* the loops of crawl now running on the instance
    candidates,         \* the candidate links get_external_links gave the last step
    resource_json,      \* the last step's download: fetched, has '_links', its attribute
    node_probe,         \* the position last put to the test of query_current_node
    failed,             \* the URIs other than the entry point whose download failed,
                        \* until a put into their slot or a clear of the cache
    uncached,           \* the uncached candidates get_external_links gave the last step
    sinceAdd,           \* per URI: the time since add was last called on it
                        \* (capped at Persistence), Never if it never was
    probe               \* a link record put to the type test of the stored query

vars == << current_uri, current_uri_type, current_uri_title, crawl_history,
           cache, found_resources, q, zmq, find_called, qry_resource_type,
           qry_resource_plural, qry_resource_title, qry_extra, loop_count, sink, pc,
           mode, runs, transition, chosen, added, sent, result, resultLog,
           loops, candidates, resource_json, node_probe, failed, uncached, sinceAdd, probe >>

NoChoice == [href |-> 0 - 1, type |-> None, title |-> None]

Position == [href |-> current_uri, type |-> current_uri_type, title |-> current_uri_title]

EntryPosition == [href |-> EntryPoint, type |-> s_entry_point, title |-> s_entry_point]

\* the queue or the socket receives uri: the earlier delivery of uri, if
\* any, was sink[uri].last ago
Deliver(snk, uri) ==
    [snk EXCEPT ![uri] =
        [last |-> 0,
         gap |-> IF snk[uri].last # Never /\ snk[uri].last < snk[uri].gap
                 THEN snk[uri].last ELSE snk[uri].gap,
         again |-> snk[uri].last # Never]]

\* PushOne with the result of add ignored: every matched uri is delivered
PushOne_IgnoresAdd(acc, uri, hasQ, hasZmq) ==
    [found |-> TdsAdd(acc.found, uri),
     found_one |-> TRUE,
     added |-> IF TdsAddResult(acc.found, uri) THEN acc.added \cup {uri} ELSE acc.added,
     sink |-> IF hasQ \/ hasZmq THEN Deliver(acc.sink, uri) ELSE acc.sink,
     sent |-> IF hasQ \/ hasZmq THEN acc.sent \cup {uri} ELSE acc.sent]

\* the body of the loop of push_uris_to_queue for one uri: lines 321-339
PushOne(acc, uri, hasQ, hasZmq) ==
    IF TdsAddResult(acc.found, uri)
    THEN [found |-> TdsAdd(acc.found, uri),
          found_one |-> TRUE,
          added |-> acc.added \cup {uri},
          sink |-> IF hasQ \/ hasZmq THEN Deliver(acc.sink, uri) ELSE acc.sink,
          sent |-> IF hasQ \/ hasZmq THEN acc.sent \cup {uri} ELSE acc.sent]
    ELSE [acc EXCEPT !.found = TdsAdd(acc.found, uri)]

\* push_uris_to_queue(uris) from element i on
RECURSIVE PushFrom(_, _, _, _, _)
PushFrom(uris, i, acc, hasQ, hasZmq) ==
    IF i > Len(uris) THEN acc
    ELSE PushFrom(uris, i + 1, PushOne(acc, uris[i], hasQ, hasZmq), hasQ, hasZmq)

PushUrisToQueue(uris, found, snk, hasQ, hasZmq) ==
    PushFrom(uris, 1,
             [found |-> found, found_one |-> FALSE, added |-> {},
              sink |-> snk, sent |-> {}],
             hasQ, hasZmq)

\* crawl_node, the except branch of the download: lines 468-493
TransportFailure(pos, hist) ==
    IF pos.href = EntryPoint
    THEN [pos |-> pos, hist |-> hist, ret |-> "False", transition |-> "entry_unreachable"]
    ELSE IF Len(hist) > 0
         THEN [pos |-> LifoTop(hist), hist |-> LifoPop(hist),
               ret |-> "True", transition |-> "backtracked"]
         ELSE [pos |-> EntryPosition, hist |-> hist,
               ret |-> "True", transition |-> "reset_to_entry"]

\* the three assignments that move to a chosen link; link['title'] raises
\* KeyError after the uri and the type have been assigned
MoveTo(pos, link) ==
    IF link.title = Absent
    THEN [pos |-> [href |-> link.href, type |-> link.type, title |-> pos.title], exc |-> TRUE]
    ELSE [pos |-> [href |-> link.href, type |-> link.type, title |-> link.title], exc |-> FALSE]

\* the href, type and title of a link record; a record without title has
\* none to give
Picked(link) ==
    [href |-> link.href, type |-> link.type,
     title |-> IF link.title = Absent THEN None ELSE link.title]

\* Advance with a history that keeps every position pushed
Advance_NoLeak(pos, hist, c, uncached_links, r) ==
    LET mv == MoveTo(pos, uncached_links[r])
    IN  [pos |-> mv.pos, hist |-> Append(hist, pos), cache |-> c,
         chosen |-> Picked(uncached_links[r]),
         ret |-> IF mv.exc THEN "raise" ELSE "True",
         transition |-> IF mv.exc THEN "KeyError" ELSE "advanced"]

\* crawl_node, "we have uncached link(s) to follow": lines 529-536
Advance(pos, hist, c, uncached_links, r) ==
    LET mv == MoveTo(pos, uncached_links[r])
    IN  [pos |-> mv.pos, hist |-> LifoPush(hist, pos), cache |-> c,
         chosen |-> Picked(uncached_links[r]),
         ret |-> IF mv.exc THEN "raise" ELSE "True",
         transition |-> IF mv.exc THEN "KeyError" ELSE "advanced"]

\* BackUp with a reset that also empties the cache
BackUp_ClearsOnReset(pos, hist, c, picked, label) ==
    IF Len(hist) > 0
    THEN [pos |-> LifoTop(hist), hist |-> LifoPop(hist), cache |-> c, chosen |-> picked,
          ret |-> "True", transition |-> IF label = "" THEN "backtracked" ELSE label]
    ELSE [pos |-> EntryPosition, hist |-> hist, cache |-> CacheEmpty, chosen |-> picked,
          ret |-> "True", transition |-> IF label = "" THEN "reset_to_entry" ELSE label]

\* crawl_node, "move back up in history": lines 562-573
BackUp(pos, hist, c, picked, label) ==
    IF Len(hist) > 0
    THEN [pos |-> LifoTop(hist), hist |-> LifoPop(hist), cache |-> c, chosen |-> picked,
          ret |-> "True", transition |-> IF label = "" THEN "backtracked" ELSE label]
    ELSE [pos |-> EntryPosition, hist |-> hist, cache |-> c, chosen |-> picked,
          ret |-> "True", transition |-> IF label = "" THEN "reset_to_entry" ELSE label]

\* DeadEnd without the call of self.cache.clear()
DeadEnd_NoClear(pos, hist, c, crawl_links, r) ==
    IF pos.type = s_entry_point
    THEN IF Len(crawl_links) > 0
         THEN LET mv == MoveTo(pos, crawl_links[r])
                  hist1 == LifoPush(hist, pos)
              IN  IF mv.exc
                  THEN [pos |-> mv.pos, hist |-> hist1, cache |-> c,
                        chosen |-> Picked(crawl_links[r]),
                        ret |-> "raise", transition |-> "KeyError"]
                  ELSE BackUp(mv.pos, hist1, c, Picked(crawl_links[r]), "cache_cleared")
         ELSE [pos |-> pos, hist |-> hist, cache |-> c, chosen |-> NoChoice,
               ret |-> "False", transition |-> "exhausted"]
    ELSE BackUp(pos, hist, c, NoChoice, "")

\* crawl_node, no uncached link: lines 538-573.  The entry-point branch
\* has no return after it has moved to the chosen link, so control falls
\* through to the pop of lines 562-573.
DeadEnd(pos, hist, c, crawl_links, r) ==
    IF pos.type = s_entry_point
    THEN IF Len(crawl_links) > 0
         THEN LET mv == MoveTo(pos, crawl_links[r])
                  hist1 == LifoPush(hist, pos)
              IN  IF mv.exc
                  THEN [pos |-> mv.pos, hist |-> hist1, cache |-> CacheEmpty,
                        chosen |-> Picked(crawl_links[r]),
                        ret |-> "raise", transition |-> "KeyError"]
                  ELSE BackUp(mv.pos, hist1, CacheEmpty, Picked(crawl_links[r]), "cache_cleared")
         ELSE [pos |-> pos, hist |-> hist, cache |-> c, chosen |-> NoChoice,
               ret |-> "False", transition |-> "exhausted"]
    ELSE BackUp(pos, hist, c, NoChoice, "")

\* crawl_node, "select next link": lines 522-581
SelectNext(pos, hist, c, crawl_links, r) ==
    LET uncached_links == SelectSeq(crawl_links, LAMBDA x : ~x.in_cache)
    IN  IF Len(uncached_links) > 0
        THEN Advance(pos, hist, c, uncached_links, r)
        ELSE DeadEnd(pos, hist, c, crawl_links, r)

\* the candidate links of the step
CandidatesOf(crawl_links) == {crawl_links[k] : k \in DOMAIN crawl_links}

\* the href, type and title of the uncached candidates
UncachedOf(crawl_links) ==
    {Picked(crawl_links[k]) : k \in {j \in DOMAIN crawl_links : ~crawl_links[j].in_cache}}

\* the number of values random.randrange can give in this step
Choices(crawl_links) ==
    LET uncached_links == SelectSeq(crawl_links, LAMBDA x : ~x.in_cache)
    IN  IF Len(uncached_links) > 0 THEN Len(uncached_links)
        ELSE IF Len(crawl_links) > 0 THEN Len(crawl_links) ELSE 1

\* ------------------------------------------------------ the fetched bodies
\* the sequences over S of length at most n
RECURSIVE SeqsUpTo(_, _)
SeqsUpTo(S, n) ==
    IF n = 0 THEN {<< >>}
    ELSE LET shorter == SeqsUpTo(S, n - 1)
         IN  shorter \cup {Append(x, e) : x \in shorter, e \in S}

NoRel == [kind |-> "absent", href |-> EntryPoint, title |-> Absent]

\* the decoded bodies req.json() may give: a link section with curies, an
\* 'items' collection and the relation 'foo' in every combination; a body
\* whose only link is 'self', without curies; a body without link section
Bodies ==
    [ links : {TRUE}, curies : {TRUE},
      items : SeqsUpTo(LinkObjs, MaxItems),
      rels : {<< v, NoRel >> : v \in RelVals},
      attr : AttrVals ]
    \cup
    [ links : {TRUE, FALSE}, curies : {FALSE}, items : {<< >>},
      rels : {<< NoRel, [kind |-> "obj", href |-> EntryPoint, title |-> Absent] >>},
      attr : {NoAttr} ]

\* ------------------------------------------------------------- crawl_node
\* StopAtMatch with the test on find_called inverted
StopAtMatch_Inverted(found_one, find_was_called) == found_one /\ ~find_was_called

\* "if (self.push_uris_to_queue(matching_uris) and self.find_called)"
StopAtMatch(found_one, find_was_called) == found_one /\ find_was_called

\* VisitCache without the write
VisitCache_NoPut(c, uri) == c

\* "if self.cache.put_and_collision(self.current_uri)": lines 455-457; the
\* result is only logged
VisitCache(c, uri) == CachePut(c, uri)

\* one call of crawl_node: the fetch fails (ok = FALSE) or gives json; r is
\* the value of random.randrange.  The result holds the new values of the
\* instance's fields, what crawl_node returns ("raise" for an exception
\* that leaves crawl_node) and the exit taken.
CrawlNodeResult(ok, json, r) ==
    LET pos == Position
        c1 == VisitCache(cache, current_uri)
        same == [pos |-> pos, hist |-> crawl_history, cache |-> c1,
                 found |-> found_resources, sink |-> sink, chosen |-> NoChoice,
                 added |-> {}, sent |-> {}, matched |-> {}, uncached |-> {},
                 candidates |-> {}]
    IN
    IF ~ok
    THEN LET f == TransportFailure(pos, crawl_history)
         IN  [same EXCEPT !.pos = f.pos, !.hist = f.hist] @@
             [ret |-> f.ret, transition |-> f.transition]
    ELSE IF ~ApplyHalCuries(json).links
    THEN \* ['_links'] raises KeyError
         same @@ [ret |-> "raise", transition |-> "KeyError"]
    ELSE
    LET crawl_links == GetExternalLinks(ApplyHalCuries(json), current_uri_type, crawl_history, c1)
        m == IF qry_extra = NoExtra
             THEN QueryLinkArray(crawl_links, qry_resource_type, qry_resource_plural,
                                 qry_resource_title)
             ELSE QueryCurrentNode(json, pos, qry_resource_type, qry_resource_plural,
                                   qry_resource_title, qry_extra)
    IN
    IF m.exc
    THEN [same EXCEPT !.uncached = UncachedOf(crawl_links),
                      !.candidates = CandidatesOf(crawl_links)] @@
         [ret |-> "raise", transition |-> "KeyError"]
    ELSE
    LET p == PushUrisToQueue(m.uris, found_resources, sink, q, zmq)
        pushed == [same EXCEPT !.found = p.found, !.sink = p.sink,
                               !.added = p.added, !.sent = p.sent,
                               !.matched = {m.uris[k] : k \in DOMAIN m.uris},
                               !.uncached = UncachedOf(crawl_links),
                               !.candidates = CandidatesOf(crawl_links)]
    IN
    IF StopAtMatch(p.found_one, find_called)
    THEN pushed @@ [ret |-> "False", transition |-> "found"]
    ELSE LET n == SelectNext(pos, crawl_history, c1, crawl_links, r)
         IN  [pushed EXCEPT !.pos = n.pos, !.hist = n.hist, !.cache = n.cache,
                            !.chosen = n.chosen] @@
             [ret |-> n.ret, transition |-> n.transition]

\* the candidate links of the step, for the range of random.randrange
StepLinks(json) ==
    IF json.links
    THEN GetExternalLinks(ApplyHalCuries(json), current_uri_type, crawl_history,
                          VisitCache(cache, current_uri))
    ELSE << >>

\* ---------------------------------------------------------------- callers
NoResult == [kind |-> "none", found |-> {}, uri |-> 0 - 1]

\* no body has been fetched
NoJson == [fetched |-> FALSE, links |-> FALSE, attr |-> NoAttr]

\* no position has been put to the test of query_current_node
NoNodeProbe == [type |-> None, title |-> None, attr |-> NoAttr, matches |-> FALSE]

NoProbe == [type |-> None, from_item_list |-> FALSE, matches |-> FALSE]

Init ==
    /\ current_uri = EntryPoint
    /\ current_uri_type = s_entry_point
    /\ current_uri_title = s_entry_point
    /\ crawl_history = << >>
    /\ cache = CacheEmpty
    /\ found_resources = TdsEmpty
    /\ q = FALSE
    /\ zmq = FALSE
    /\ find_called = FALSE
    /\ qry_resource_type = None
    /\ qry_resource_plural = << >>
    /\ qry_resource_title = None
    /\ qry_extra = NoExtra
    /\ loop_count = 0
    /\ sink = [u \in URIs |-> [last |-> Never, gap |-> Persistence, again |-> FALSE]]
    /\ pc = "idle"
    /\ mode = "none"
    /\ runs = 0
    /\ transition = "none"
    /\ chosen = NoChoice
    /\ added = {}
    /\ sent = {}
    /\ result = NoResult
    /\ resultLog = {}
    /\ loops = 0
    /\ uncached = {}
    /\ candidates = {}
    /\ resource_json = NoJson
    /\ node_probe = NoNodeProbe
    /\ failed = {}
    /\ sinceAdd = [u \in URIs |-> Never]
    /\ probe = NoProbe

\* the queries a caller makes in this model: namespace, resource_type,
\* plural_resource_type, resource_title, resource_extra
Queries ==
    { [ns |-> s_empty, rt |-> s_Foo, pl |-> None, ti |-> None, ex |-> NoExtra],
      [ns |-> s_empty, rt |-> None, pl |-> None, ti |-> s_A, ex |-> NoExtra],
      [ns |-> s_empty, rt |-> s_Foo, pl |-> None, ti |-> None, ex |-> 1] }

\* crawl, lines 403-436: store the search criteria and enter the loop
SetQuery(namespace, resource_type, plural_resource_type, resource_title, resource_extra) ==
    /\ qry_resource_type' =
          IF resource_type # None THEN Lower(namespace \o resource_type) ELSE None
    /\ qry_resource_plural' =
          IF resource_type # None
          THEN LET pl == PluralizeResourceName(Lower(namespace \o resource_type))
                   all == IF plural_resource_type # None
                          THEN Append(pl, namespace \o plural_resource_type) ELSE pl
               IN  [i \in DOMAIN all |-> Lower(all[i])]
          ELSE qry_resource_plural
    /\ qry_resource_title' = IF resource_title # None THEN Lower(resource_title) ELSE None
    /\ qry_extra' = resource_extra

StartLoop(m, a, limit) ==
    /\ pc = "idle"
    /\ runs < limit
    /\ runs' = runs + 1
    /\ pc' = "running"
    /\ mode' = m
    /\ SetQuery(a.ns, a.rt, a.pl, a.ti, a.ex)
    /\ loop_count' = 0
    /\ transition' = "none"
    /\ chosen' = NoChoice
    /\ added' = {}
    /\ sent' = {}
    /\ result' = NoResult
    /\ loops' = loops + 1
    /\ uncached' = {}
    /\ candidates' = {}
    /\ resource_json' = NoJson
    /\ UNCHANGED << current_uri, current_uri_type, current_uri_title, crawl_history,
                    cache, found_resources, sink, resultLog, sinceAdd, probe, node_probe,
                    failed >>

\* crawl(namespace, resource_type, plural_resource_type, resource_title, resource_extra)
Crawl(a, limit) ==
    /\ StartLoop("crawl", a, limit)
    /\ UNCHANGED << q, zmq, find_called >>

\* find(...): sets find_called, then crawls
Find(a, limit) ==
    /\ StartLoop("find", a, limit)
    /\ find_called' = TRUE
    /\ UNCHANGED << q, zmq >>

\* crawl_thread(q, ...): keeps the queue if one is given, crawls in a thread
CrawlThread(given_q, a, limit) ==
    /\ StartLoop("crawl_thread", a, limit)
    /\ q' = IF given_q THEN TRUE ELSE q
    /\ UNCHANGED << zmq, find_called >>

\* crawl_zmq(socket, ...): binds a PUSH socket, then crawls
CrawlZmq(a, limit) ==
    /\ StartLoop("crawl_zmq", a, limit)
    /\ zmq' = TRUE
    /\ UNCHANGED << q, find_called >>

\* what the call gives its caller when the loop ends with crawl_node
\* returning False: crawl returns self.found_resources, find returns
\* asList()[0] or None (first is the element asList lists first),
\* crawl_zmq returns nothing and the thread's return value is dropped
ReturnValue(m, found, first) ==
    CASE m = "crawl" -> [kind |-> "found_resources", found |-> TdsAsSet(found), uri |-> 0 - 1]
      [] m = "find" -> IF TdsSize(found) >= 1
                       THEN [kind |-> "uri", found |-> {}, uri |-> first]
                       ELSE [kind |-> "None", found |-> {}, uri |-> 0 - 1]
      [] OTHER -> NoResult

\* an exception leaves crawl, find and crawl_zmq; in a thread it ends the thread
RaisedValue(m) ==
    IF m = "crawl_thread" THEN NoResult
    ELSE [kind |-> "KeyError", found |-> {}, uri |-> 0 - 1]

\* the URIs whose download failed, after a step at uri: the step's put
\* takes the slot of uri, a clear takes every slot, and a failed download
\* of a URI other than the entry point marks it
FailedAfter(marked, uri, ok, cleared) ==
    IF cleared THEN {}
    ELSE {v \in marked : SlotOf(v) # SlotOf(uri)}
            \cup (IF ~ok /\ uri # EntryPoint THEN {uri} ELSE {})

\* one iteration of "while(self.crawl_node())", and the end of the call
\* when crawl_node returns False or raises; the run is followed for limit
\* iterations
CrawlNodeWithin(limit, ok, json, r) ==
    /\ pc = "running"
    /\ loop_count < limit
    /\ \E s \in {CrawlNodeResult(ok, json, r)} :
           /\ current_uri' = s.pos.href
           /\ current_uri_type' = s.pos.type
           /\ current_uri_title' = s.pos.title
           /\ crawl_history' = s.hist
           /\ cache' = s.cache
           /\ found_resources' = s.found
           /\ sink' = s.sink
           /\ added' = s.added
           /\ sent' = s.sent
           /\ transition' = s.transition
           /\ chosen' = s.chosen
           /\ uncached' = s.uncached
           /\ candidates' = s.candidates
           /\ resource_json' = [fetched |-> ok, links |-> json.links, attr |-> json.attr]
           /\ failed' = FailedAfter(failed, current_uri, ok, s.cache = CacheEmpty)
           /\ sinceAdd' = [u \in URIs |-> IF u \in s.matched THEN 0 ELSE sinceAdd[u]]
           /\ IF s.ret = "True"
              THEN /\ loop_count' = loop_count + 1
                   /\ UNCHANGED << pc, result, resultLog, loops >>
              ELSE /\ pc' = IF loops = 1 THEN "idle" ELSE "running"
                   /\ loops' = loops - 1
                   /\ loop_count' = loop_count
                   /\ \E first \in (IF s.ret = "False" /\ mode = "find" /\ TdsSize(s.found) >= 1
                                    THEN TdsAsSet(s.found) ELSE {0 - 1}) :
                        \E res \in {IF s.ret = "raise" THEN RaisedValue(mode)
                                    ELSE ReturnValue(mode, s.found, first)} :
                            /\ result' = res
                            /\ resultLog' = resultLog \cup
                                 {[mode |-> mode, outcome |-> s.transition, result |-> res]}
    /\ UNCHANGED << q, zmq, find_called, qry_resource_type, qry_resource_plural,
                    qry_resource_title, qry_extra, mode, runs, probe, node_probe >>

CrawlNode(ok, json, r) == CrawlNodeWithin(MaxSteps, ok, json, r)

FailedFetch == [ links |-> FALSE, curies |-> FALSE, items |-> << >>,
                 rels |-> << NoRel, NoRel >>, attr |-> NoAttr ]

\* the download succeeds and gives json
FetchOkWithin(limit, bodies) ==
    /\ pc = "running"
    /\ loop_count < limit
    /\ \E json \in bodies :
        /\ qry_extra = NoExtra => json.attr = NoAttr
        /\ \E r \in 1..Choices(StepLinks(json)) : CrawlNodeWithin(limit, TRUE, json, r)

FetchOk(bodies) == FetchOkWithin(MaxSteps, bodies)

\* the download raises ConnectionError
FetchFailsWithin(limit) == CrawlNodeWithin(limit, FALSE, FailedFetch, 1)

FetchFails == FetchFailsWithin(MaxSteps)

\* Tick with a set whose entries never expire
Tick_NoExpiry ==
    /\ found_resources' = found_resources
    /\ sink' = [u \in URIs |->
                  [sink[u] EXCEPT !.last = IF @ = Never THEN Never
                                           ELSE IF @ + 1 >= Persistence THEN Persistence
                                           ELSE @ + 1]]
    /\ sinceAdd' = [u \in URIs |->
                      IF sinceAdd[u] = Never THEN Never
                      ELSE IF sinceAdd[u] + 1 >= Persistence THEN Persistence
                      ELSE sinceAdd[u] + 1]
    /\ UNCHANGED << current_uri, current_uri_type, current_uri_title, crawl_history,
                    cache, q, zmq, find_called, qry_resource_type,
                    qry_resource_plural, qry_resource_title, qry_extra, loop_count, pc,
                    mode, runs, transition, chosen, added, sent, result, resultLog,
                    loops, candidates, resource_json, node_probe, failed, uncached, probe >>

\* time passes: a clock tick
Tick ==
    /\ found_resources' = TdsTick(found_resources)
    /\ sink' = [u \in URIs |->
                  [sink[u] EXCEPT !.last = IF @ = Never THEN Never
                                           ELSE IF @ + 1 >= Persistence THEN Persistence
                                           ELSE @ + 1]]
    /\ sinceAdd' = [u \in URIs |->
                      IF sinceAdd[u] = Never THEN Never
                      ELSE IF sinceAdd[u] + 1 >= Persistence THEN Persistence
                      ELSE sinceAdd[u] + 1]
    /\ UNCHANGED << current_uri, current_uri_type, current_uri_title, crawl_history,
                    cache, q, zmq, find_called, qry_resource_type,
                    qry_resource_plural, qry_resource_title, qry_extra, loop_count, pc,
                    mode, runs, transition, chosen, added, sent, result, resultLog,
                    loops, candidates, resource_json, node_probe, failed, uncached, probe >>

\* one call on a fresh instance, every body
Next ==
    \/ \E a \in Queries :
            \/ Crawl(a, 1)
            \/ Find(a, 1)
            \/ \E given_q \in BOOLEAN : CrawlThread(given_q, a, 1)
            \/ CrawlZmq(a, 1)
    \/ FetchOk(Bodies)
    \/ FetchFails
    \/ Tick

Spec == Init /\ [][Next]_vars

\* the bodies of the runs of several calls: no link section, an empty link
\* section, and the relation 'foo' leading to resource 1
CallBodies ==
    { b \in Bodies : /\ b.items = << >>
                     /\ b.attr = NoAttr
                     /\ b.rels[1].kind = "obj" => (b.rels[1].href = 1 /\ b.rels[1].title = s_a) }

\* up to MaxRuns calls, one after the other, on the same instance
NextCalls ==
    \/ \E a \in Queries :
            \/ Crawl(a, MaxRuns)
            \/ Find(a, MaxRuns)
            \/ \E given_q \in BOOLEAN : CrawlThread(given_q, a, MaxRuns)
            \/ CrawlZmq(a, MaxRuns)
    \/ FetchOk(CallBodies)
    \/ FetchFails
    \/ Tick

SpecCalls == Init /\ [][NextCalls]_vars

\* --------------------------------------------- a run that loses its way
\* the bodies of the long run: a link section with the relation 'foo'
\* leading to any resource, or with no candidate link
DeepBodies ==
    { b \in Bodies : /\ b.links /\ b.curies
                     /\ b.items = << >>
                     /\ b.attr = NoAttr
                     /\ b.rels[1].kind # "null"
                     /\ b.rels[1].kind = "obj" => b.rels[1].title = s_a }

\* one call of crawl, followed for MaxDeepSteps iterations: long enough to
\* fill the history, lose its oldest entry and pop the rest
NextDeep ==
    \/ \E a \in Queries : Crawl(a, 1)
    \/ FetchOkWithin(MaxDeepSteps, DeepBodies)
    \/ FetchFailsWithin(MaxDeepSteps)
    \/ Tick

SpecDeep == Init /\ [][NextDeep]_vars

\* ------------------------------------------------ crawl_thread, twice
\* crawl_thread returns as soon as its thread has started (line 368), so
\* the caller can call it again while the loop of the first thread runs:
\* the new thread stores its criteria and enters the loop of crawl as well.
\* A step of CrawlNode is then a step of either loop.
CrawlThreadAgain(given_q, a) ==
    /\ pc = "running"
    /\ mode = "crawl_thread"
    /\ loops >= 1
    /\ loops < MaxLoops
    /\ runs < MaxRuns
    /\ loops' = loops + 1
    /\ runs' = runs + 1
    /\ q' = IF given_q THEN TRUE ELSE q
    /\ SetQuery(a.ns, a.rt, a.pl, a.ti, a.ex)
    /\ UNCHANGED << current_uri, current_uri_type, current_uri_title, crawl_history,
                    cache, found_resources, zmq, find_called, loop_count, sink, pc,
                    mode, transition, chosen, added, sent, result, resultLog,
                    candidates, resource_json, node_probe, failed, uncached, sinceAdd, probe >>

NextThreads ==
    \/ \E a \in Queries : \E given_q \in BOOLEAN : CrawlThread(given_q, a, 1)
    \/ \E a \in Queries : \E given_q \in BOOLEAN : CrawlThreadAgain(given_q, a)
    \/ FetchOk(CallBodies)
    \/ FetchFails
    \/ Tick

SpecThreads == Init /\ [][NextThreads]_vars

\* ------------------------------------------------ the type test on its own
s_Feet == <<"F","e","e","t">>

\* the types of the link records put to the test: the singular, the plural
\* forms, parts of them, and others, with and without the namespace 'a'
ProbeTypes ==
    { s_foo, s_Foo, s_foo \o s_s, s_foo \o s_es, Lower(s_Feet), s_Feet,
      s_a \o s_foo, s_a \o s_foo \o s_s, s_a \o Lower(s_Feet),
      s_s, s_es, s_empty, <<"o","o">>, <<"f","o">>, <<"e","e">>,
      s_entry_point, s_items }

\* the queries by type: with and without namespace, with and without the
\* caller's own plural
MatcherQueries ==
    { [ns |-> n, rt |-> s_Foo, pl |-> p, ti |-> None, ex |-> NoExtra] :
        n \in {s_empty, s_a}, p \in {None, s_Feet} }

\* query_link_array, the type test of lines 236-243, on the link record
\* {'type': type, 'from_item_list': from_item_list} under the stored query
ProbeLink(type, from_item_list) ==
    /\ pc = "running"
    /\ qry_resource_type # None
    /\ probe' = [type |-> type, from_item_list |-> from_item_list,
                 matches |-> LinkTypeMatches(
                                [type |-> type, from_item_list |-> from_item_list],
                                qry_resource_type, qry_resource_plural)]
    /\ UNCHANGED << current_uri, current_uri_type, current_uri_title, crawl_history,
                    cache, found_resources, q, zmq, find_called, qry_resource_type,
                    qry_resource_plural, qry_resource_title, qry_extra, loop_count,
                    sink, pc, mode, runs, transition, chosen, added, sent, result,
                    resultLog, loops, candidates, resource_json, node_probe, failed, uncached, sinceAdd >>

\* crawl stores a query by type, then link records are put to the type test
NextMatcher ==
    \/ \E a \in MatcherQueries : Crawl(a, 1)
    \/ \E type \in ProbeTypes, from_item_list \in BOOLEAN : ProbeLink(type, from_item_list)

SpecMatcher == Init /\ [][NextMatcher]_vars

\* ------------------------------------------- the test of the current node
\* the queries with resource_extra: with and without a type, the caller's
\* own plural and a title
NodeQueries ==
    { [ns |-> s_empty, rt |-> t, pl |-> p, ti |-> i, ex |-> 1] :
        t \in {None, s_Foo}, p \in {None, s_Feet}, i \in {None, s_A} }

\* the titles of the positions put to the test
ProbeTitles == {s_a, s_A, s_entry_point}

\* query_current_node(json) at a position of the given type and title, on a
\* body whose attribute is attr (NoAttr: the body lacks the key)
ProbeNode(type, title, attr) ==
    /\ pc = "running"
    /\ qry_extra # NoExtra
    /\ node_probe' =
          [type |-> type, title |-> title, attr |-> attr,
           matches |-> QueryCurrentNode([attr |-> attr],
                                        [href |-> current_uri, type |-> type, title |-> title],
                                        qry_resource_type, qry_resource_plural,
                                        qry_resource_title, qry_extra).uris
                          = << current_uri >>]
    /\ UNCHANGED << current_uri, current_uri_type, current_uri_title, crawl_history,
                    cache, found_resources, q, zmq, find_called, qry_resource_type,
                    qry_resource_plural, qry_resource_title, qry_extra, loop_count,
                    sink, pc, mode, runs, transition, chosen, added, sent, result,
                    resultLog, loops, candidates, resource_json, failed, uncached,
                    sinceAdd, probe >>

\* crawl stores a query with resource_extra, then positions and bodies are
\* put to the test of query_current_node
NextNode ==
    \/ \E a \in NodeQueries : Crawl(a, 1)
    \/ \E type \in ProbeTypes, title \in ProbeTitles, attr \in AttrVals :
          ProbeNode(type, title, attr)

SpecNode == Init /\ [][NextNode]_vars

\* ----------------------------------------------------------------- claims
PositionNext == [href |-> current_uri', type |-> current_uri_type', title |-> current_uri_title']

\* a call of crawl_node that returned True has just been made
StepTaken == pc = "running" /\ loop_count' = loop_count + 1

\* C1: between two deliveries of the same URI to the queue or the socket at
\* least Persistence time has passed, also when the URI is matched several
\* times in one step or again at later steps.
C1_AtMostOncePerWindow == \A u \in URIs : sink[u].gap >= Persistence

\* a URI has been delivered a second time, after its entry had expired
C1_Witness == \E u \in URIs : sink[u].again /\ sink[u].last = 0

\* C2: every URI for which add returned True in a step is delivered to the
\* sink in that step, in every invocation mode.
C2_AddedAreDelivered == added \subseteq sent

\* C3: in find mode a step in which add returned True is the last of the
\* run: it ends the run as found and, past the cache write made before the
\* fetch, changes neither position nor history; and a step ends the run as
\* found only when add returned True in it.
C3_FindStopsAtFirstMatch ==
    [][ /\ (pc = "running" /\ mode = "find" /\ added' # {})
            => /\ pc' = "idle" /\ transition' = "found"
               /\ PositionNext = Position
               /\ crawl_history' = crawl_history
               /\ cache' = CachePut(cache, current_uri)
        /\ (pc = "running" /\ transition' = "found")
            => (added' # {} /\ find_called /\ pc' = "idle") ]_vars

\* find has ended at its first match
C3_Witness == mode = "find" /\ transition = "found" /\ pc = "idle" /\ result.kind = "uri"

\* C4: a step at the entry point with candidates, none uncached, clears the
\* cache, pushes the entry point and ends at the chosen candidate.
C4_EntryDeadEndMovesToCandidate ==
    [][ (StepTaken /\ Position = EntryPosition /\ transition' = "cache_cleared")
          => /\ cache' = CacheEmpty
             /\ Len(crawl_history') > 0
             /\ LifoTop(crawl_history') = EntryPosition
             /\ PositionNext = chosen' ]_vars

\* C5: right after a step that cleared the cache, check is false for every
\* URI, so for every candidate of the step, all of them cached before.
C5_NothingCachedAfterClear ==
    transition = "cache_cleared" => \A u \in URIs : ~CacheCheck(cache, u)

\* a step has cleared the cache after it picked a (cached) candidate
C5_Witness == transition = "cache_cleared" /\ chosen # NoChoice /\ pc = "running"

\* C6: a step at a non-entry URI with a non-empty history that hits a
\* transport failure or finds no uncached candidate ends at the position
\* that was on top of the history, and the history has lost that entry.
C6_BacktrackRestoresTop ==
    [][ (StepTaken /\ current_uri # EntryPoint /\ Len(crawl_history) > 0
           /\ transition' \in {"backtracked", "cache_cleared"})
          => /\ PositionNext = LifoTop(crawl_history)
             /\ crawl_history' = LifoPop(crawl_history) ]_vars

\* C7: a transport failure ends the run only at the entry point with an
\* empty history.
C7_FatalOnlyWithoutHistory ==
    transition = "entry_unreachable" => (current_uri = EntryPoint /\ Len(crawl_history) = 0)

\* C8: the run ends as exhausted only when the current URI is the entry
\* point.
C8_ExhaustedOnlyAtEntry == transition = "exhausted" => current_uri = EntryPoint

\* C9: a call that ended by a transport failure at the entry point and a
\* call that ended at an entry point without links give their callers
\* different results.
C9_OutcomesDistinguishable ==
    \A a, b \in resultLog :
        (a.mode = b.mode /\ a.outcome = "entry_unreachable" /\ b.outcome = "exhausted")
            => a.result # b.result

\* C10: no body of a successful fetch makes an exception leave crawl_node.
C10_NoExceptionFromBody == transition # "KeyError"

\* C11: a run started by crawl, crawl_thread or crawl_zmq never ends because
\* a match was delivered, whatever calls were made on the instance before.
C11_EmitAllNeverEndsAsFound == transition = "found" => mode = "find"

\* C12: find returns a URI exactly when its run ended as found, and then a
\* URI for which add returned True in the run's last step; a run of find
\* that ended exhausted or by a transport failure at the entry point
\* returns None, whatever the set held from earlier runs.
C12_FindReturnsThisRunsMatch ==
    (mode = "find" /\ pc = "idle") =>
        /\ result.kind = "uri" => (transition = "found" /\ result.uri \in added)
        /\ transition = "found" => result.kind = "uri"
        /\ transition \in {"exhausted", "entry_unreachable"} => result.kind = "None"

\* the plural forms of the stored query: singular + 's', singular + 'es'
\* and the plural the caller gave
PluralForms ==
    {qry_resource_type \o s_s, qry_resource_type \o s_es}
        \cup {qry_resource_plural[k] : k \in 3..Len(qry_resource_plural)}

\* C13: a link record passes the type test exactly when its lower-cased
\* type is the singular query type, or is one of the plural forms and the
\* record is from an 'items' collection.
C13_TypeCriterion ==
    probe # NoProbe =>
        (probe.matches <=>
            \/ Lower(probe.type) = qry_resource_type
            \/ probe.from_item_list /\ Lower(probe.type) \in PluralForms)

\* C14: at most one loop of crawl runs on the instance at any time.
C14_OneLoopAtATime == loops <= 1

\* the last n elements of a sequence
LastN(seq, n) == IF Len(seq) <= n THEN seq ELSE SubSeq(seq, Len(seq) - n + 1, Len(seq))

CrawlNodeStep == pc = "running" /\ (loop_count' = loop_count + 1 \/ loops' = loops - 1)

\* C16: after a step check is true for the URI of the step, and for another
\* URI exactly when it was true before and the URI's slot is not the slot
\* of the step's URI, unless the step cleared the cache, after which check
\* is false for every URI; nothing but a step changes the cache; check is
\* true only for a URI whose fingerprint is the one its slot holds.
C16_CacheMembership ==
    [][ /\ CrawlNodeStep =>
              \A u \in URIs :
                  CacheCheck(cache', u) <=>
                      /\ cache' # CacheEmpty
                      /\ \/ u = current_uri
                         \/ CacheCheck(cache, u) /\ SlotOf(u) # SlotOf(current_uri)
        /\ (CrawlNodeStep /\ cache' = CacheEmpty) => transition' \in {"cache_cleared", "KeyError"}
        /\ ~CrawlNodeStep => cache' = cache
        /\ \A u \in URIs : CacheCheck(cache', u) => cache'[SlotOf(u)] = Fingerprint(u) ]_vars

\* a URI put after the entry point shares its slot and has evicted it, and
\* a URI of another slot is still reported cached
C16_Witness ==
    \E u \in URIs \ {EntryPoint} :
        /\ SlotOf(u) = SlotOf(EntryPoint)
        /\ CacheCheck(cache, u)
        /\ ~CacheCheck(cache, EntryPoint)
        /\ \E v \in URIs : SlotOf(v) # SlotOf(u) /\ CacheCheck(cache, v)

\* the URIs on which add was called less than Persistence ago
Unexpired(since) == {u \in URIs : since[u] # Never /\ since[u] < Persistence}

\* C17: in a step add returns True exactly for the URIs it is called on that
\* were never added or were last added Persistence or more ago; the set
\* lists exactly the URIs added less than Persistence ago, and so does what
\* crawl returns and what find takes its URI from.
C17_AddAndExpiry ==
    [][ /\ CrawlNodeStep =>
              \A u \in URIs :
                  u \in added' <=>
                      /\ sinceAdd'[u] = 0
                      /\ sinceAdd[u] = Never \/ sinceAdd[u] >= Persistence
        /\ TdsAsSet(found_resources') = Unexpired(sinceAdd')
        /\ TdsSize(found_resources') = Cardinality(Unexpired(sinceAdd'))
        /\ (CrawlNodeStep /\ result'.kind = "found_resources")
              => result'.found = Unexpired(sinceAdd')
        /\ (CrawlNodeStep /\ result'.kind = "uri")
              => result'.uri \in Unexpired(sinceAdd') ]_vars

\* add has returned True for a URI a second time, after its entry expired,
\* while the set no longer lists another URI added before
C17_Witness ==
    \E u \in URIs :
        /\ u \in added
        /\ found_resources[u] = 0
        /\ sink[u].again
        /\ \E v \in URIs : sinceAdd[v] = Persistence /\ v \notin TdsAsSet(found_resources)

\* C18: a step never advances to a URI that is the href of a position on
\* the history at that moment.
C18_NeverAdvancesIntoHistory ==
    [][ (StepTaken /\ transition' = "advanced")
          => \A k \in DOMAIN crawl_history : crawl_history[k].href # current_uri' ]_vars

\* C19: a step on a fetched body with an uncached candidate, unless it ends
\* the run as found, advances: it ends at one of the uncached candidates
\* with the position it started from on top of the history, and the cache
\* holds what it held plus the step's URI; no step advances to a candidate
\* that was reported cached.
C19_AdvancesToUncached ==
    [][ /\ (CrawlNodeStep /\ uncached' # {} /\ transition' # "found")
              => /\ transition' = "advanced"
                 /\ PositionNext \in uncached'
                 /\ Len(crawl_history') > 0
                 /\ crawl_history'[Len(crawl_history')] = Position
                 /\ cache' = CachePut(cache, current_uri)
        /\ (CrawlNodeStep /\ transition' = "advanced") => PositionNext \in uncached' ]_vars

\* C20: a step leaves the cache empty only when it was taken at the entry
\* point URI and had no uncached candidate; a step removes at most the top
\* entry of the history and no URI from the found set.
C20_ClearOnlyAtEntryPoint ==
    [][ CrawlNodeStep =>
            /\ cache' = CacheEmpty => (current_uri = EntryPoint /\ uncached' = {})
            /\ Len(crawl_history') >= Len(crawl_history) - 1
            /\ TdsAsSet(found_resources) \subseteq TdsAsSet(found_resources') ]_vars

\* ------------------------------------------------------------------ C21
\* a call of crawl_node that ends with the jump to the entry point
ResetStep == CrawlNodeStep /\ transition' = "reset_to_entry"

\* C21: a step that pops an empty history and jumps to the entry point
\* sets the position to the entry point's uri, type 'entry_point' and
\* title 'entry_point', leaves the history empty, keeps the loop running
\* and gives the caller nothing; the cache is the cache before the step
\* with the step's URI put, and the found set differs from the one before
\* the step only in the URIs the step itself handed off before it reached
\* the dead end and in the renewed time of a match it already held.
C21_ResetKeepsCacheAndFound ==
    [][ResetStep =>
         /\ crawl_history = << >>
         /\ PositionNext = EntryPosition
         /\ crawl_history' = << >>
         /\ pc' = "running"
         /\ loop_count' = loop_count + 1
         /\ result' = result
         /\ resultLog' = resultLog
         /\ cache' = CachePut(cache, current_uri)
         /\ \A u \in URIs :
               IF u \in added'
               THEN ~TdsLive(found_resources, u) /\ found_resources'[u] = 0
               ELSE /\ found_resources'[u] \in {found_resources[u], 0}
                    /\ TdsLive(found_resources', u) <=> TdsLive(found_resources, u)
      ]_vars

\* a reset has happened in a step that also handed off a match
C21_Witness ==
    /\ transition = "reset_to_entry"
    /\ Position = EntryPosition
    /\ added # {}

\* C21 as worded: the found set after a reset step is the found set the
\* step started with
C21_ResetLeavesFoundUntouched ==
    [][ResetStep => found_resources' = found_resources]_vars

\* ------------------------------------------------------------------ C22
\* the type and title criteria of the stored query, for a link record:
\* the singular type, or a plural form on a record from a collection; the
\* title, which a record without title cannot satisfy
SatisfiesTypeTitle(l) ==
    /\ qry_resource_type # None =>
          \/ Lower(l.type) = qry_resource_type
          \/ l.from_item_list /\ Lower(l.type) \in PluralForms
    /\ qry_resource_title # None =>
          (l.title # Absent /\ Lower(l.title) = qry_resource_title)

\* the candidates of the step just taken that the query asks for and that
\* the found set did not hold when the step began
Wanted ==
    {l \in candidates' : SatisfiesTypeTitle(l) /\ ~TdsLive(found_resources, l.href)}

\* handed off in the step just taken: added to the found set and, when the
\* instance has a queue or a socket, sent to it
HandedOff(u) == u \in added' /\ ((q \/ zmq) => u \in sent')

\* C22: in a step of a query without resource_extra, every candidate link
\* of the fetched body that satisfies the type and title criteria and is
\* not in the found set is handed off in that step, whatever its in_cache
\* flag and whichever link the step moves to.
C22_MatchingCandidatesDelivered ==
    [][(CrawlNodeStep /\ qry_extra = NoExtra) => \A l \in Wanted : HandedOff(l.href)]_vars

\* the same, for the steps that query_link_array does not leave by KeyError
C22_DeliveredUnlessRaised ==
    [][(CrawlNodeStep /\ qry_extra = NoExtra /\ transition' # "KeyError")
          => \A l \in Wanted : HandedOff(l.href)]_vars

\* a cached candidate that is not the link chosen has been handed off
C22_CachedDelivered ==
    \E l \in candidates :
        /\ l.in_cache /\ l.href \in added /\ l.href # chosen.href
        /\ qry_extra = NoExtra /\ transition = "advanced"

\* ------------------------------------------------------------------ C23
\* C23: under a query with resource_extra, query_current_node gives the
\* current URI only if the body holds the queried key with the queried
\* value, the position's type is the singular or one of the plural forms
\* when a type is queried, and the position's title is the queried title
\* when a title is queried.
C23_CurrentNodeCriteria ==
    node_probe.matches =>
        /\ node_probe.attr # NoAttr /\ node_probe.attr = qry_extra
        /\ qry_resource_type # None =>
              \/ Lower(node_probe.type) = qry_resource_type
              \/ Lower(node_probe.type) \in PluralForms
        /\ qry_resource_title # None => Lower(node_probe.title) = qry_resource_title

\* the same without the type criterion
C23_ExtraAndTitle ==
    node_probe.matches =>
        /\ node_probe.attr # NoAttr /\ node_probe.attr = qry_extra
        /\ qry_resource_title # None => Lower(node_probe.title) = qry_resource_title

\* in the crawl: a step of a query with resource_extra hands off nothing
\* but the URI it fetched, and only when the body holds the queried value
\* and the position's type and title are the queried ones; a body that
\* lacks the key gives no match, and no exception of its own
C23_OnlyTheFetchedURI ==
    [][(CrawlNodeStep /\ qry_extra # NoExtra) =>
         /\ added' \subseteq {current_uri}
         /\ added' # {} =>
               /\ resource_json'.fetched /\ resource_json'.attr = qry_extra
               /\ qry_resource_type # None =>
                     \/ Lower(current_uri_type) = qry_resource_type
                     \/ Lower(current_uri_type) \in PluralForms
               /\ qry_resource_title # None =>
                     Lower(current_uri_title) = qry_resource_title
         /\ (resource_json'.fetched /\ resource_json'.links /\ resource_json'.attr = NoAttr) =>
               /\ added' = {}
               /\ transition' = "KeyError" => chosen'.title = None
      ]_vars

\* a step has fetched a body with the queried value at a position of the
\* queried type and handed off its URI
C23_Delivered ==
    /\ qry_extra # NoExtra
    /\ added # {}
    /\ resource_json.attr = qry_extra

\* ------------------------------------------------------------------ C24
\* C24: a step records its URI in the cache before the download, whether
\* the download succeeds or fails: after a step that did not clear the
\* cache, check is true for the step's URI, and a candidate of the step
\* that links to the step's own URI is reported as cached.  A URI other
\* than the entry point whose download failed stays in the cache, and is
\* reported as cached whenever it is a candidate, until a step puts a URI
\* into its slot or clears the cache.
C24_RecordedBeforeFetch ==
    [][CrawlNodeStep =>
         /\ cache' # CacheEmpty => CacheCheck(cache', current_uri)
         /\ ~resource_json'.fetched => CacheCheck(cache', current_uri)
         /\ \A l \in candidates' : l.href = current_uri => l.in_cache
         /\ \A v \in failed' : CacheCheck(cache', v)
         /\ \A l \in candidates' :
               (l.href \in failed /\ SlotOf(l.href) # SlotOf(current_uri)) => l.in_cache
      ]_vars

\* a URI whose download failed is a candidate of a later step, and is
\* reported as cached
C24_Witness ==
    /\ resource_json.fetched
    /\ \E l \in candidates : l.href \in failed /\ l.in_cache /\ l.href # current_uri

\* ------------------------------------------------------------------ C25
\* C25: in every state the current position's type is 'entry_point'
\* exactly when the current URI is the entry point URI.
C25_EntryNotionsAgree ==
    (current_uri_type = s_entry_point) <=> (current_uri = EntryPoint)

\* the type 'entry_point' is only held at the entry point URI
C25_TypeImpliesURI ==
    (current_uri_type = s_entry_point) => (current_uri = EntryPoint)

\* at the entry point URI the type is 'entry_point'
C25_URIImpliesType ==
    (current_uri = EntryPoint) => (current_uri_type = s_entry_point)

====
